---- MODULE Spec2Model ----
(***************************************************************************)
(* Model of the lightbrite-eq audio processor:                             *)
(*   src/src/components/AudioProcessor.tsx  (host component, processAudio, *)
(*                                           audioBufferToWav)             *)
(*   src/src/filterConfig.ts                (static filter list)           *)
(***************************************************************************)
EXTENDS Integers, Sequences, FiniteSets, TLC

VARIABLES
    \* ---- component state (AudioProcessor.tsx:23-27) ----
    isDragging, fileName, audioContextRef, isProcessing, error,
    \* ---- one entry per drop event: the closure of that handleDrop call ----
    runs,
    \* ---- files handed to the browser by a.click() (AudioProcessor.tsx:122) ----
    downloads,
    \* ---- audioBufferToWav as a function of its argument ----
    wavIn, wavOut,
    \* ---- the header of audioBufferToWav for lengths up to 2^32-1 ----
    hdrIn, hdrOut,
    \* ---- the filter chain of processAudio as a function of the filter list ----
    filters, graph

vars == <<isDragging, fileName, audioContextRef, isProcessing, error, runs,
          downloads, wavIn, wavOut, hdrIn, hdrOut, filters, graph>>

hostVars  == <<isDragging, fileName, audioContextRef, isProcessing, error, runs, downloads>>
wavVars   == <<wavIn, wavOut>>
hdrVars   == <<hdrIn, hdrOut>>
chainVars == <<filters, graph>>

----------------------------------------------------------------------------
(* Bounds *)

\* buffers handed to audioBufferToWav in SpecWav
MaxWavChannels == 2
MaxWavFrames == 2

\* channel counts of the headers written in SpecHeader
MaxHdrChannels == 2

\* lengths of the filter lists processAudio is applied to in SpecChain
MaxFilters == 3

----------------------------------------------------------------------------
(* Numbers.  TLC integers are 32-bit, a DataView field is written modulo    *)
(* 2^w, and frameCount * blockAlign can exceed 2^32, so byte counts are     *)
(* carried as little-endian base-256 digit sequences of arbitrary length.   *)

Byte == 256

RECURSIVE Digits(_, _)
\* the k low base-256 digits of the natural n, little-endian
Digits(n, k) == IF k = 0 THEN <<>> ELSE <<n % Byte>> \o Digits(n \div Byte, k - 1)

RECURSIVE DigitsMulCarry(_, _, _)
DigitsMulCarry(d, m, carry) ==
    IF d = <<>>
    THEN IF carry = 0 THEN <<>> ELSE <<carry % Byte>> \o DigitsMulCarry(<<>>, m, carry \div Byte)
    ELSE LET p == Head(d) * m + carry
         IN <<p % Byte>> \o DigitsMulCarry(Tail(d), m, p \div Byte)

\* digit sequence d times the small natural m, exact (no wrap)
DigitsMul(d, m) == DigitsMulCarry(d, m, 0)

RECURSIVE DigitsAddCarry(_, _)
DigitsAddCarry(d, carry) ==
    IF d = <<>>
    THEN IF carry = 0 THEN <<>> ELSE <<carry % Byte>> \o DigitsAddCarry(<<>>, carry \div Byte)
    ELSE LET s == Head(d) + carry
         IN <<s % Byte>> \o DigitsAddCarry(Tail(d), s \div Byte)

\* digit sequence d plus the small natural a, exact (no wrap)
DigitsAdd(d, a) == DigitsAddCarry(d, a)

\* the k low digits of d, zero-padded: the value of d modulo 2^(8k)
LowDigits(d, k) == [j \in 1..k |-> IF j <= Len(d) THEN d[j] ELSE 0]

\* does the digit sequence d denote a number below 2^(8k)?
FitsIn(d, k) == \A j \in 1..Len(d) : j > k => d[j] = 0

----------------------------------------------------------------------------
(* DataView writes (AudioProcessor.tsx:194-226).  A view is a sequence of  *)
(* bytes; byte offset o is element o+1.                                     *)

SetBytes(view, offset, bytes) ==
    [j \in 1..Len(view) |->
        IF j > offset /\ j <= offset + Len(bytes) THEN bytes[j - offset] ELSE view[j]]

\* view.setUint32(offset, value, true): the value modulo 2^32, little-endian
setUint32(view, offset, valueDigits) == SetBytes(view, offset, LowDigits(valueDigits, 4))

\* view.setUint16(offset, value, true): the value modulo 2^16, little-endian
setUint16(view, offset, valueDigits) == SetBytes(view, offset, LowDigits(valueDigits, 2))

\* writeString(offset, string): one setUint8 per character code
writeString(view, offset, codes) == SetBytes(view, offset, codes)

RIFF == <<82, 73, 70, 70>>
WAVE == <<87, 65, 86, 69>>
FMT  == <<102, 109, 116, 32>>
DATA == <<100, 97, 116, 97>>

format == 1
bitDepth == 16
bytesPerSample == bitDepth \div 8
HeaderBytes == 44

\* a block alignment that forgets the channel count
blockAlignOfOneChannel(numChannels) == bytesPerSample

blockAlignOf(numChannels) == numChannels * bytesPerSample

\* buffer.length * blockAlign as computed in double precision: exact
dataBytesOf(numChannels, lengthDigits) == DigitsMul(lengthDigits, blockAlignOf(numChannels))

\* the header writes of audioBufferToWav, in the order of the code
WriteHeader(view, numChannels, sampleRate, lengthDigits) ==
    LET blockAlign == blockAlignOf(numChannels)
        dataBytes  == dataBytesOf(numChannels, lengthDigits)
        v1  == writeString(view, 0, RIFF)
        v2  == setUint32(v1, 4, DigitsAdd(dataBytes, 36))
        v3  == writeString(v2, 8, WAVE)
        v4  == writeString(v3, 12, FMT)
        v5  == setUint32(v4, 16, Digits(16, 4))
        v6  == setUint16(v5, 20, Digits(format, 4))
        v7  == setUint16(v6, 22, Digits(numChannels, 4))
        v8  == setUint32(v7, 24, Digits(sampleRate, 4))
        v9  == setUint32(v8, 28, Digits(sampleRate * blockAlign, 4))
        v10 == setUint16(v9, 32, Digits(blockAlign, 4))
        v11 == setUint16(v10, 34, Digits(bitDepth, 4))
        v12 == writeString(v11, 36, DATA)
        v13 == setUint32(v12, 40, dataBytes)
    IN v13

----------------------------------------------------------------------------
(* Samples.  A Float32 sample is a dyadic rational, NaN or an infinity; a   *)
(* finite sample is num / SampleDen.  For "inf", num is the sign.           *)

SampleDen == 65536

Num(n) == [kind |-> "num", num |-> n]
NaN == [kind |-> "nan", num |-> 0]
PlusInf == [kind |-> "inf", num |-> 1]
MinusInf == [kind |-> "inf", num |-> -1]

Abs(n) == IF n < 0 THEN -n ELSE n
Sign(n) == IF n < 0 THEN -1 ELSE 1

\* Math.min(1, x): NaN if x is NaN
MathMin1(x) ==
    CASE x.kind = "nan" -> NaN
      [] x.kind = "inf" -> IF x.num > 0 THEN Num(SampleDen) ELSE x
      [] OTHER -> IF x.num > SampleDen THEN Num(SampleDen) ELSE x

\* Math.max(-1, x): NaN if x is NaN
MathMaxNeg1(x) ==
    CASE x.kind = "nan" -> NaN
      [] x.kind = "inf" -> IF x.num < 0 THEN Num(-SampleDen) ELSE x
      [] OTHER -> IF x.num < -SampleDen THEN Num(-SampleDen) ELSE x

\* no clamping at all
ClampSampleNone(x) == x

\* const sample = Math.max(-1, Math.min(1, channelData[i]))
ClampSample(x) == MathMaxNeg1(MathMin1(x))

\* x < 0 in JavaScript: false for NaN
LessThanZero(x) == x.kind # "nan" /\ x.num < 0

\* x * k for a natural k, as the exact real sign * (whole + frac / SampleDen);
\* the product of a Float32 and a 15/16-bit integer is exact in double precision.
\* (|num| is split into quotient and remainder to stay inside 32-bit integers.)
Times(x, k) ==
    CASE x.kind = "nan" -> [kind |-> "nan", sign |-> 1, whole |-> 0, frac |-> 0]
      [] x.kind = "inf" -> [kind |-> "inf", sign |-> x.num, whole |-> 0, frac |-> 0]
      [] OTHER ->
            LET a == Abs(x.num)
                q == a \div SampleDen
                p == (a % SampleDen) * k
            IN [kind |-> "num", sign |-> Sign(x.num),
                whole |-> q * k + p \div SampleDen, frac |-> p % SampleDen]

\* const int16 = sample < 0 ? sample * 0x8000 : sample * 0x7FFF
ScaleSample(sample) ==
    IF LessThanZero(sample) THEN Times(sample, 32768) ELSE Times(sample, 32767)

\* ToInt16 of ECMAScript, applied by setInt16: NaN and infinities give 0, a
\* finite number is truncated toward zero, then taken modulo 2^16 into
\* [-32768, 32767]
ToInt16(v) ==
    IF v.kind # "num" THEN 0
    ELSE LET t == v.sign * v.whole
             u == t % 65536
         IN IF u >= 32768 THEN u - 65536 ELSE u

\* the two bytes of a 16-bit two's complement value, little-endian
Int16Bytes(n) == LET u == n % 65536 IN <<u % Byte, u \div Byte>>

\* view.setInt16(offset, value, true)
setInt16(view, offset, value) == SetBytes(view, offset, Int16Bytes(ToInt16(value)))

\* the 16-bit value audioBufferToWav stores for a sample
EncodeSample(x) == ToInt16(ScaleSample(ClampSample(x)))

----------------------------------------------------------------------------
(* audioBufferToWav (AudioProcessor.tsx:184-231) on a buffer                 *)
(*   [numberOfChannels, length, sampleRate, channels]                       *)
(* where channels[c+1][i+1] is sample i of channel c.                       *)

\* the strides of frame and channel exchanged
SampleOffsetSwapped(numChannels, channel, i) ==
    HeaderBytes + (i * bytesPerSample) + (channel * blockAlignOf(numChannels))

\* the byte offset the data loop writes for (channel, i)
SampleOffset(numChannels, channel, i) ==
    HeaderBytes + (i * blockAlignOf(numChannels)) + (channel * bytesPerSample)

\* writes[j] counts the data-loop writes that touched byte j-1
CountWrite(writes, offset, n) ==
    [j \in 1..Len(writes) |->
        IF j > offset /\ j <= offset + n THEN writes[j] + 1 ELSE writes[j]]

RECURSIVE WriteData(_, _, _, _)
\* the nested loop of lines 221-228, channel outer, frame inner
WriteData(st, buffer, channel, i) ==
    IF channel >= buffer.numberOfChannels THEN st
    ELSE IF i >= buffer.length THEN WriteData(st, buffer, channel + 1, 0)
    ELSE LET channelData == buffer.channels[channel + 1]
             sample == ClampSample(channelData[i + 1])
             int16  == ScaleSample(sample)
             off    == SampleOffset(buffer.numberOfChannels, channel, i)
         IN WriteData([view   |-> setInt16(st.view, off, int16),
                       writes |-> CountWrite(st.writes, off, bytesPerSample)],
                      buffer, channel, i + 1)

audioBufferToWav(buffer) ==
    LET numChannels == buffer.numberOfChannels
        size == HeaderBytes + buffer.length * blockAlignOf(numChannels)
        wav  == [j \in 1..size |-> 0]
        hdr  == WriteHeader(wav, numChannels, buffer.sampleRate, Digits(buffer.length, 4))
        st   == WriteData([view |-> hdr, writes |-> [j \in 1..size |-> 0]], buffer, 0, 0)
    IN [bytes |-> st.view, writes |-> st.writes]

\* ---- inputs of the encoder ----
WavSamples ==
    { Num(-98304), Num(-SampleDen), Num(-3), Num(0), Num(32768),
      Num(SampleDen), Num(98304), NaN, PlusInf, MinusInf }

WavSampleRates == {44100, 48000}

\* the buffers of one shape: `base` everywhere but for `hot` at one position
WavBuffersOfShape(nc, len) ==
    IF len = 0
    THEN { [numberOfChannels |-> nc, length |-> 0, sampleRate |-> sr,
            channels |-> [c \in 1..nc |-> <<>>]] : sr \in WavSampleRates }
    ELSE { [numberOfChannels |-> nc, length |-> len, sampleRate |-> sr,
            channels |-> [c \in 1..nc |->
                            [i \in 1..len |-> IF c = hc /\ i = hi THEN hot ELSE base]]] :
             sr \in WavSampleRates, hc \in 1..nc, hi \in 1..len,
             hot \in WavSamples, base \in WavSamples }

WavBuffers ==
    UNION { WavBuffersOfShape(nc, len) : nc \in 1..MaxWavChannels, len \in 0..MaxWavFrames }

NoWav == [done |-> FALSE, bytes |-> <<>>, writes |-> <<>>]

----------------------------------------------------------------------------
(* filterConfig.ts and the chain built by processAudio                      *)
(* (AudioProcessor.tsx:39-48, 57-72).  gain is in tenths of a dB and Q in   *)
(* hundredths; hasQ is FALSE where the entry has no Q.                      *)

StaticFilters ==
    << [type |-> "peaking",   freq |-> 170,  gain |-> 99,   hasQ |-> TRUE,  Q |-> 176],
       [type |-> "peaking",   freq |-> 662,  gain |-> -80,  hasQ |-> TRUE,  Q |-> 300],
       [type |-> "peaking",   freq |-> 3000, gain |-> -112, hasQ |-> TRUE,  Q |-> 276],
       [type |-> "highshelf", freq |-> 7410, gain |-> 100,  hasQ |-> FALSE, Q |-> 0] >>

\* the Q of a freshly created BiquadFilterNode, in hundredths
DefaultQ == 100

\* (a, b) => a.freq - b.freq
CompareFreq(a, b) == a.freq - b.freq

RECURSIVE InsertSortedUnstable(_, _)
\* x goes before the first element that does not compare less than x
InsertSortedUnstable(sorted, x) ==
    IF sorted = <<>> THEN <<x>>
    ELSE IF CompareFreq(Head(sorted), x) >= 0 THEN <<x>> \o sorted
    ELSE <<Head(sorted)>> \o InsertSortedUnstable(Tail(sorted), x)

RECURSIVE InsertSorted(_, _)
\* x goes before the first element that compares greater than x
InsertSorted(sorted, x) ==
    IF sorted = <<>> THEN <<x>>
    ELSE IF CompareFreq(Head(sorted), x) > 0 THEN <<x>> \o sorted
    ELSE <<Head(sorted)>> \o InsertSorted(Tail(sorted), x)

RECURSIVE StableSort(_)
\* Array.prototype.sort with the comparator above: a stable sort
StableSort(list) ==
    IF list = <<>> THEN <<>>
    ELSE InsertSorted(StableSort(SubSeq(list, 1, Len(list) - 1)), list[Len(list)])

\* [...filters].sort(cmp): the sorted copy, and the array `filters` afterwards
SortedCopy(list) == [result |-> StableSort(list), receiver |-> list]

\* createFilter(ctx, config)
createFilter(config) ==
    [type |-> config.type, frequency |-> config.freq, gain |-> config.gain,
     Q |-> IF config.hasQ THEN config.Q ELSE DefaultQ]

\* node ids of one OfflineAudioContext: the buffer source, the k-th filter
\* created, the context's destination
SourceNode == 0
DestinationNode == -1

RECURSIVE ConnectFilters(_, _, _)
\* sortedFilters.forEach(...): g = [currentNode, stages, edges]
ConnectFilters(g, sortedFilters, k) ==
    IF k > Len(sortedFilters) THEN g
    ELSE LET filter == createFilter(sortedFilters[k])
             id == Len(g.stages) + 1
         IN ConnectFilters([currentNode |-> id,
                            stages |-> Append(g.stages, filter),
                            edges |-> g.edges \cup {<<g.currentNode, id>>}],
                           sortedFilters, k + 1)

\* lines 57-72: the graph of one rendering
BuildGraph(sortedFilters) ==
    LET g == ConnectFilters([currentNode |-> SourceNode, stages |-> <<>>, edges |-> {}],
                            sortedFilters, 1)
    IN [stages |-> g.stages, edges |-> g.edges \cup {<<g.currentNode, DestinationNode>>}]

\* a constructor that accepts a length of zero
OfflineAudioContextThrowsNoLength(numberOfChannels, length, sampleRate) ==
    numberOfChannels = 0 \/ sampleRate = 0

\* new OfflineAudioContext(numberOfChannels, length, sampleRate) throws
\* NotSupportedError when an argument is zero
OfflineAudioContextThrows(numberOfChannels, length, sampleRate) ==
    numberOfChannels = 0 \/ length = 0 \/ sampleRate = 0

\* the first two constructor arguments exchanged
NewOfflineAudioContextSwapped(audioBuffer) ==
    [numberOfChannels |-> audioBuffer.length,
     length |-> audioBuffer.numberOfChannels,
     sampleRate |-> audioBuffer.sampleRate]

\* the context processAudio constructs for audioBuffer (lines 51-55)
NewOfflineAudioContext(audioBuffer) ==
    [numberOfChannels |-> audioBuffer.numberOfChannels,
     length |-> audioBuffer.length,
     sampleRate |-> audioBuffer.sampleRate]

NoGraph == [stages |-> <<>>, edges |-> {}]
NoContext == [numberOfChannels |-> 0, length |-> 0, sampleRate |-> 0]

\* processAudio up to startRendering(): either the constructor throws, or the
\* rendering of ctx through graph is pending
processAudio(audioBuffer, filterList) ==
    IF OfflineAudioContextThrows(audioBuffer.numberOfChannels, audioBuffer.length,
                                 audioBuffer.sampleRate)
    THEN [threw |-> TRUE, ctx |-> NoContext, graph |-> NoGraph, filters |-> filterList]
    ELSE LET sorted == SortedCopy(filterList)
         IN [threw |-> FALSE,
             ctx |-> NewOfflineAudioContext(audioBuffer),
             graph |-> BuildGraph(sorted.result),
             filters |-> sorted.receiver]

\* what startRendering() resolves with: a buffer of the context's shape
RenderedBuffers(ctx, samples) ==
    { [numberOfChannels |-> ctx.numberOfChannels, length |-> ctx.length,
       sampleRate |-> ctx.sampleRate, channels |-> ch] :
        ch \in [1..ctx.numberOfChannels -> [1..ctx.length -> samples]] }

----------------------------------------------------------------------------
(* The host component (AudioProcessor.tsx:5-131)                            *)

\* a limit one byte short, as file.size >= MAX_FILE_SIZE would give
MAX_FILE_SIZE_Exclusive == 1024 * 1024 * 1024 - 1

MAX_FILE_SIZE == 1024 * 1024 * 1024

SUPPORTED_AUDIO_TYPES ==
    << "audio/wav", "audio/mpeg", "audio/mp3", "audio/ogg", "audio/aac",
       "audio/m4a", "audio/x-m4a", "audio/mp4", "audio/webm", "audio/flac" >>

\* SUPPORTED_AUDIO_TYPES.includes(type)
Includes(list, x) == \E j \in 1..Len(list) : list[j] = x

UnsupportedTypeMessage == "Unsupported file type. Please use a standard audio format (WAV, MP3, OGG, AAC, M4A, FLAC)"
FileSizeMessage == "File size must be less than 1GB"
ProcessingErrorMessage == "Error processing audio file. Make sure the file is a valid audio format."

\* file names are sequences of characters
RECURSIVE lastIndexOf(_, _, _)
\* name.lastIndexOf(ch), searching down from position k (1-based); 0 for -1
lastIndexOf(name, ch, k) ==
    IF k = 0 THEN 0 ELSE IF name[k] = ch THEN k ELSE lastIndexOf(name, ch, k - 1)

\* lines 115-118
newFileNameOf(name) ==
    LET lastDotIndex == lastIndexOf(name, ".", Len(name))
    IN IF lastDotIndex # 0
       THEN SubSeq(name, 1, lastDotIndex - 1) \o <<"-", "E", "Q">>
                \o SubSeq(name, lastDotIndex, Len(name))
       ELSE name \o <<"-", "E", "Q">>

NoBuffer == [numberOfChannels |-> 0, length |-> 0, sampleRate |-> 0, channels |-> <<>>]

\* the closure of one handleDrop call; steps lists the awaited or called
\* operations that have returned normally in this run
NewRun(file, pc) ==
    [file |-> file, pc |-> pc, steps |-> <<>>,
     decoded |-> FALSE, audioBuffer |-> NoBuffer,
     ctx |-> NoContext, graph |-> NoGraph,
     rendered |-> FALSE, processedBuffer |-> NoBuffer]

InFlight(r) == runs[r].pc \in {"reading", "decoding", "rendering"}

\* ---- bounds and inputs of the host ----
MaxDrops == 2
HostChannelCounts == {0, 1}
HostFrameCounts == {0, 2}

FileNames == { <<"a", ".", "m", "p", "3">>, <<"b">> }
FileTypes == { "audio/mpeg", "audio/x-wav" }
FileSizes == { 0, MAX_FILE_SIZE, MAX_FILE_SIZE + 1 }
Files == [name : FileNames, type : FileTypes, size : FileSizes]

HostSamples == { Num(98304) }
HostSampleRates == { 44100 }

\* what decodeAudioData may resolve with
DecodedBuffers ==
    UNION { UNION { { [numberOfChannels |-> nc, length |-> len, sampleRate |-> sr,
                       channels |-> [c \in 1..nc |-> [i \in 1..len |-> Num(0)]]] :
                        sr \in HostSampleRates } :
                    len \in HostFrameCounts } :
            nc \in HostChannelCounts }

\* handleDrag (lines 29-37)
handleDrag(type) ==
    /\ isDragging' = (IF type \in {"dragenter", "dragover"} THEN TRUE
                      ELSE IF type = "dragleave" THEN FALSE
                      ELSE isDragging)
    /\ UNCHANGED <<fileName, audioContextRef, isProcessing, error, runs, downloads>>
    /\ UNCHANGED <<wavVars, hdrVars, chainVars>>

\* handleDrop up to its first await (lines 79-103); files = e.dataTransfer.files
handleDrop(files) ==
    /\ isDragging' = FALSE
    /\ IF files = <<>>
       THEN /\ error' = ""
            /\ UNCHANGED <<fileName, isProcessing, runs>>
       ELSE LET file == files[1] IN
            /\ Len(runs) < MaxDrops
            /\ IF ~Includes(SUPPORTED_AUDIO_TYPES, file.type)
               THEN /\ error' = UnsupportedTypeMessage
                    /\ runs' = Append(runs, NewRun(file, "rejected"))
                    /\ UNCHANGED <<fileName, isProcessing>>
               ELSE IF file.size > MAX_FILE_SIZE
               THEN /\ error' = FileSizeMessage
                    /\ runs' = Append(runs, NewRun(file, "rejected"))
                    /\ UNCHANGED <<fileName, isProcessing>>
               ELSE /\ error' = ""
                    /\ fileName' = file.name
                    /\ isProcessing' = TRUE
                    /\ runs' = Append(runs, NewRun(file, "reading"))
    /\ UNCHANGED <<audioContextRef, downloads>>
    /\ UNCHANGED <<wavVars, hdrVars, chainVars>>

\* a catch block that leaves the message alone
CatchFinallySilent(r) ==
    /\ error' = error
    /\ isProcessing' = FALSE
    /\ runs' = [runs EXCEPT ![r].pc = "failed"]
    /\ UNCHANGED <<isDragging, fileName, downloads>>

\* the catch and finally blocks (lines 125-130) of run r
CatchFinally(r) ==
    /\ error' = ProcessingErrorMessage
    /\ isProcessing' = FALSE
    /\ runs' = [runs EXCEPT ![r].pc = "failed"]
    /\ UNCHANGED <<isDragging, fileName, downloads>>

\* file.arrayBuffer() resolved: lines 104-107, up to the await of decodeAudioData
ReadResolved(r) ==
    /\ runs[r].pc = "reading"
    /\ audioContextRef' = TRUE
    /\ runs' = [runs EXCEPT ![r].pc = "decoding", ![r].steps = Append(@, "read")]
    /\ UNCHANGED <<isDragging, fileName, isProcessing, error, downloads>>
    /\ UNCHANGED <<wavVars, hdrVars, chainVars>>

\* file.arrayBuffer() rejected
ReadRejected(r) ==
    /\ runs[r].pc = "reading"
    /\ CatchFinally(r)
    /\ UNCHANGED <<audioContextRef, wavVars, hdrVars, chainVars>>

\* decodeAudioData resolved with audioBuffer: line 108, processAudio up to the
\* await of startRendering(), or its constructor throwing into the catch block
DecodeResolved(r, audioBuffer) ==
    /\ runs[r].pc = "decoding"
    /\ LET p == processAudio(audioBuffer, filters) IN
       /\ filters' = p.filters
       /\ IF p.threw
          THEN /\ error' = ProcessingErrorMessage
               /\ isProcessing' = FALSE
               /\ runs' = [runs EXCEPT ![r].pc = "failed",
                                       ![r].steps = Append(@, "decode"),
                                       ![r].decoded = TRUE,
                                       ![r].audioBuffer = audioBuffer]
               /\ UNCHANGED <<isDragging, fileName, downloads>>
          ELSE /\ runs' = [runs EXCEPT ![r].pc = "rendering",
                                       ![r].steps = Append(@, "decode"),
                                       ![r].decoded = TRUE,
                                       ![r].audioBuffer = audioBuffer,
                                       ![r].ctx = p.ctx,
                                       ![r].graph = p.graph]
               /\ UNCHANGED <<isDragging, fileName, isProcessing, error, downloads>>
    /\ UNCHANGED <<audioContextRef, wavVars, hdrVars, graph>>

\* decodeAudioData rejected (DecodeError)
DecodeRejected(r) ==
    /\ runs[r].pc = "decoding"
    /\ CatchFinally(r)
    /\ UNCHANGED <<audioContextRef, wavVars, hdrVars, chainVars>>

\* startRendering() resolved with processedBuffer: lines 111-124 and 129
RenderResolved(r, processedBuffer) ==
    /\ runs[r].pc = "rendering"
    /\ LET wav == audioBufferToWav(processedBuffer)
           file == runs[r].file
       IN /\ downloads' = Append(downloads,
                                 [run |-> r, download |-> newFileNameOf(file.name),
                                  type |-> file.type, bytes |-> wav.bytes])
          /\ runs' = [runs EXCEPT ![r].pc = "done",
                                  ![r].steps = @ \o <<"render", "encode">>,
                                  ![r].rendered = TRUE,
                                  ![r].processedBuffer = processedBuffer]
    /\ isProcessing' = FALSE
    /\ UNCHANGED <<isDragging, fileName, audioContextRef, error>>
    /\ UNCHANGED <<wavVars, hdrVars, chainVars>>

\* startRendering() rejected
RenderRejected(r) ==
    /\ runs[r].pc = "rendering"
    /\ CatchFinally(r)
    /\ UNCHANGED <<audioContextRef, wavVars, hdrVars, chainVars>>

----------------------------------------------------------------------------
(* Specifications *)

HostInit ==
    /\ isDragging = FALSE
    /\ fileName = <<>>
    /\ audioContextRef = FALSE
    /\ isProcessing = FALSE
    /\ error = ""
    /\ runs = <<>>
    /\ downloads = <<>>

WavIdle == wavIn = NoBuffer /\ wavOut = NoWav
HdrIdle == hdrIn = [numChannels |-> 0, sampleRate |-> 0, length |-> <<>>] /\ hdrOut = [state |-> "idle", bytes |-> <<>>]
ChainIdle == filters = StaticFilters /\ graph = NoGraph

\* ---- the component: drops, drags and the completions of awaited promises ----
Init == HostInit /\ WavIdle /\ HdrIdle /\ ChainIdle

Next ==
    \/ \E type \in {"dragenter", "dragover", "dragleave"} : handleDrag(type)
    \/ \E files \in {<<>>} \cup { <<f>> : f \in Files } : handleDrop(files)
    \/ \E r \in 1..Len(runs) : ReadResolved(r)
    \/ \E r \in 1..Len(runs) : ReadRejected(r)
    \/ \E r \in 1..Len(runs) : \E b \in DecodedBuffers : DecodeResolved(r, b)
    \/ \E r \in 1..Len(runs) : DecodeRejected(r)
    \/ \E r \in 1..Len(runs) :
          \E b \in RenderedBuffers(runs[r].ctx, HostSamples) : RenderResolved(r, b)
    \/ \E r \in 1..Len(runs) : RenderRejected(r)

Spec == Init /\ [][Next]_vars

\* ---- audioBufferToWav applied to a buffer ----
EncodeWav ==
    /\ ~wavOut.done
    /\ LET wav == audioBufferToWav(wavIn)
       IN wavOut' = [done |-> TRUE, bytes |-> wav.bytes, writes |-> wav.writes]
    /\ UNCHANGED <<wavIn, hostVars, hdrVars, chainVars>>

InitWav == HostInit /\ HdrIdle /\ ChainIdle /\ wavIn \in WavBuffers /\ wavOut = NoWav

NextWav == EncodeWav

SpecWav == InitWav /\ [][NextWav]_vars

\* ---- the header of audioBufferToWav, for every length of an AudioBuffer ----
\* AudioBuffer.length is an unsigned long: four base-256 digits
HdrLengths ==
    {
      <<0, 0, 0, 0>>,   \* 0
      <<1, 0, 0, 0>>,   \* 1
      <<100, 0, 0, 0>>,   \* 100
      <<0, 0, 1, 0>>,   \* 2^16
      <<0, 0, 0, 1>>,   \* 2^24
      <<0, 0, 0, 32>>,   \* 2^29
      <<246, 255, 255, 63>>,   \* 2^30 - 10
      <<247, 255, 255, 63>>,   \* 2^30 - 9
      <<0, 0, 0, 64>>,   \* 2^30
      <<237, 255, 255, 127>>,   \* 2^31 - 19
      <<238, 255, 255, 127>>,   \* 2^31 - 18
      <<0, 0, 0, 128>>,   \* 2^31
      <<255, 255, 255, 255>>    \* 2^32 - 1
    }

HdrSampleRates == {8000, 44100, 48000, 96000}

\* 44 + buffer.length * blockAlign
wavSizeOf(numChannels, lengthDigits) ==
    DigitsAdd(dataBytesOf(numChannels, lengthDigits), HeaderBytes)

\* the allocations of lines 193 and 219 succeed for every size below 2^31; above,
\* it depends on the engine's limit and on the memory at hand
MayThrowRangeError(numChannels, lengthDigits) ==
    LET size == wavSizeOf(numChannels, lengthDigits)
    IN ~FitsIn(size, 4) \/ size[4] >= 128

\* lines 193-215
EncodeHeader ==
    /\ hdrOut.state = "idle"
    /\ hdrOut' = [state |-> "written",
                  bytes |-> WriteHeader([j \in 1..HeaderBytes |-> 0], hdrIn.numChannels,
                                        hdrIn.sampleRate, hdrIn.length)]
    /\ UNCHANGED <<hdrIn, hostVars, wavVars, chainVars>>

\* new ArrayBuffer / new Float32Array throws: nothing is returned
AllocationThrows ==
    /\ hdrOut.state = "idle"
    /\ MayThrowRangeError(hdrIn.numChannels, hdrIn.length)
    /\ hdrOut' = [state |-> "RangeError", bytes |-> <<>>]
    /\ UNCHANGED <<hdrIn, hostVars, wavVars, chainVars>>

InitHeader ==
    /\ HostInit /\ WavIdle /\ ChainIdle
    /\ hdrIn \in [numChannels : 1..MaxHdrChannels, sampleRate : HdrSampleRates,
                  length : HdrLengths]
    /\ hdrOut = [state |-> "idle", bytes |-> <<>>]

NextHeader == EncodeHeader \/ AllocationThrows

SpecHeader == InitHeader /\ [][NextHeader]_vars

\* ---- processAudio as a function of the filter list ----
FilterEntries ==
    { [type |-> "peaking", freq |-> f, gain |-> g, hasQ |-> TRUE, Q |-> 176] :
        f \in {170, 662, 3000}, g \in {99, -80} }
    \cup { [type |-> "highshelf", freq |-> 662, gain |-> 100, hasQ |-> FALSE, Q |-> 0] }

RECURSIVE SeqsUpTo(_, _)
\* the sequences over S of length at most n
SeqsUpTo(S, n) ==
    IF n = 0 THEN {<<>>}
    ELSE LET shorter == SeqsUpTo(S, n - 1)
         IN shorter \cup { Append(q, x) : q \in shorter, x \in S }

FilterLists == SeqsUpTo(FilterEntries, MaxFilters) \cup {StaticFilters}

ChainBuffer ==
    [numberOfChannels |-> 1, length |-> 1, sampleRate |-> 44100,
     channels |-> <<<<Num(0)>>>>]

ProcessAudioChain ==
    /\ graph = NoGraph
    /\ LET p == processAudio(ChainBuffer, filters)
       IN graph' = p.graph /\ filters' = p.filters
    /\ UNCHANGED <<hostVars, wavVars, hdrVars>>

InitChain == HostInit /\ WavIdle /\ HdrIdle /\ filters \in FilterLists /\ graph = NoGraph

NextChain == ProcessAudioChain

SpecChain == InitChain /\ [][NextChain]_vars

----------------------------------------------------------------------------
(* Reading a WAV byte sequence back, as a PCM reader does *)

U16At(bytes, offset) == bytes[offset + 1] + 256 * bytes[offset + 2]

\* signed 16-bit little-endian
S16At(bytes, offset) ==
    LET u == U16At(bytes, offset) IN IF u >= 32768 THEN u - 65536 ELSE u

\* the four bytes at offset, as a digit sequence
U32DigitsAt(bytes, offset) == SubSeq(bytes, offset + 1, offset + 4)

\* the (channel, frame) positions of a buffer, 0-based
Positions(buffer) == (0..(buffer.numberOfChannels - 1)) \X (0..(buffer.length - 1))

SampleAt(buffer, pos) == buffer.channels[pos[1] + 1][pos[2] + 1]

\* where the WAV format puts sample i of channel c
DataOffset(buffer, pos) == 44 + pos[2] * (buffer.numberOfChannels * 2) + pos[1] * 2

----------------------------------------------------------------------------
(* Claims *)

\* C1: audioBufferToWav returns exactly 44 + frameCount*channelCount*2 bytes
\* for every buffer with channelCount >= 1 and frameCount >= 0.
C1_WavLength ==
    wavOut.done =>
        Len(wavOut.bytes) = 44 + wavIn.length * wavIn.numberOfChannels * 2

C1_Witness ==
    /\ wavOut.done
    /\ wavIn.numberOfChannels = 2
    /\ wavIn.length = 2
    /\ Len(wavOut.bytes) = 52

\* C2: the 44-byte header holds the little-endian fields of the WAV layout, and
\* its u32 size fields equal the true values 36 + dataBytes and dataBytes for
\* every frameCount and channelCount, without wrapping modulo 2^32.
C2_HeaderExact ==
    hdrOut.state = "written" =>
        LET b == hdrOut.bytes
            blockAlign == hdrIn.numChannels * 2
            dataBytes == DigitsMul(hdrIn.length, blockAlign)
            riffSize == DigitsAdd(dataBytes, 36)
        IN /\ Len(b) = 44
           /\ SubSeq(b, 1, 4) = <<82, 73, 70, 70>>
           /\ SubSeq(b, 9, 12) = <<87, 65, 86, 69>>
           /\ SubSeq(b, 13, 16) = <<102, 109, 116, 32>>
           /\ U32DigitsAt(b, 16) = <<16, 0, 0, 0>>
           /\ U16At(b, 20) = 1
           /\ U16At(b, 22) = hdrIn.numChannels
           /\ U32DigitsAt(b, 24) = Digits(hdrIn.sampleRate, 4)
           /\ U32DigitsAt(b, 28) = Digits(hdrIn.sampleRate * blockAlign, 4)
           /\ U16At(b, 32) = blockAlign
           /\ U16At(b, 34) = 16
           /\ SubSeq(b, 37, 40) = <<100, 97, 116, 97>>
           /\ FitsIn(riffSize, 4) /\ U32DigitsAt(b, 4) = LowDigits(riffSize, 4)
           /\ FitsIn(dataBytes, 4) /\ U32DigitsAt(b, 40) = LowDigits(dataBytes, 4)

\* C3: the signed 16-bit little-endian value at 44 + i*blockAlign + c*2 is the
\* quantization of sample i of channel c; the data loop writes every byte of
\* [44, 44 + frameCount*blockAlign) exactly once and no byte of the header.
C3_Interleaved ==
    wavOut.done =>
        /\ \A pos \in Positions(wavIn) :
              S16At(wavOut.bytes, DataOffset(wavIn, pos)) = EncodeSample(SampleAt(wavIn, pos))
        /\ \A j \in 1..Len(wavOut.writes) :
              wavOut.writes[j] = IF j <= 44 THEN 0 ELSE 1
        /\ Len(wavOut.writes) = 44 + wavIn.length * (wavIn.numberOfChannels * 2)

C3_Witness ==
    /\ wavOut.done
    /\ wavIn.numberOfChannels = 2
    /\ wavIn.length = 2
    /\ SampleAt(wavIn, <<1, 0>>) = Num(-SampleDen)
    /\ SampleAt(wavIn, <<0, 1>>) = Num(32768)
    /\ S16At(wavOut.bytes, 46) = -32768
    /\ S16At(wavOut.bytes, 48) = 16383

\* C4: every sample is encoded clamped to [-1, 1], negative values scaled by
\* 32768 and the others by 32767: the stored value lies in [-32768, 32767], a
\* sample of 1.5 (or any sample >= 1) gives 32767 and a sample of -1.5 (or any
\* sample <= -1) gives -32768.
C4_ClampedScale ==
    wavOut.done =>
        \A pos \in Positions(wavIn) :
            LET x == SampleAt(wavIn, pos)
                v == S16At(wavOut.bytes, DataOffset(wavIn, pos))
            IN /\ v \in -32768..32767
               /\ (x.kind = "inf" /\ x.num > 0) => v = 32767
               /\ (x.kind = "inf" /\ x.num < 0) => v = -32768
               /\ (x.kind = "num" /\ x.num >= SampleDen) => v = 32767
               /\ (x.kind = "num" /\ x.num <= -SampleDen) => v = -32768
               /\ (x.kind = "num" /\ x.num >= 0 /\ x.num < SampleDen) =>
                      (x.num * 32767 - v * SampleDen) \in 0..(SampleDen - 1)
               /\ (x.kind = "num" /\ x.num < 0 /\ x.num > -SampleDen) =>
                      (v * SampleDen - x.num * 32768) \in 0..(SampleDen - 1)

C4_Witness ==
    /\ wavOut.done
    /\ \E p, q \in Positions(wavIn) :
          /\ SampleAt(wavIn, p) = Num(98304)
          /\ S16At(wavOut.bytes, DataOffset(wavIn, p)) = 32767
          /\ SampleAt(wavIn, q) = Num(-98304)
          /\ S16At(wavOut.bytes, DataOffset(wavIn, q)) = -32768

DownloadsOf(r) == { k \in 1..Len(downloads) : downloads[k].run = r }

SameShape(a, b) ==
    /\ a.numberOfChannels = b.numberOfChannels
    /\ a.length = b.length
    /\ a.sampleRate = b.sampleRate

\* C5: the buffer processAudio returns has the channelCount, frameCount and
\* sampleRate of its input, and so has the WAV produced from it.
C5_ShapePreserved ==
    \A r \in 1..Len(runs) :
        runs[r].rendered =>
            /\ SameShape(runs[r].processedBuffer, runs[r].audioBuffer)
            /\ \A k \in DownloadsOf(r) :
                  /\ U16At(downloads[k].bytes, 22) = runs[r].audioBuffer.numberOfChannels
                  /\ U32DigitsAt(downloads[k].bytes, 24)
                        = Digits(runs[r].audioBuffer.sampleRate, 4)
                  /\ Len(downloads[k].bytes)
                        = 44 + runs[r].audioBuffer.length
                                 * runs[r].audioBuffer.numberOfChannels * 2

C5_Witness ==
    \E r \in 1..Len(runs) :
        /\ runs[r].rendered
        /\ runs[r].audioBuffer.numberOfChannels = 1
        /\ runs[r].audioBuffer.length = 2
        /\ DownloadsOf(r) # {}

\* C6: rendering a decoded buffer with frameCount = 0 or channelCount = 0
\* fails: no output buffer, no call of audioBufferToWav, no download.
C6_EmptyBufferFails ==
    \A r \in 1..Len(runs) :
        (runs[r].decoded /\ (runs[r].audioBuffer.length = 0
                             \/ runs[r].audioBuffer.numberOfChannels = 0)) =>
            /\ runs[r].pc = "failed"
            /\ ~runs[r].rendered
            /\ runs[r].steps = <<"read", "decode">>
            /\ DownloadsOf(r) = {}

C6_Witness ==
    \E r, q \in 1..Len(runs) :
        /\ runs[r].decoded /\ runs[r].audioBuffer.length = 0
        /\ runs[r].audioBuffer.numberOfChannels = 1
        /\ runs[r].pc = "failed"
        /\ runs[q].decoded /\ runs[q].audioBuffer.numberOfChannels = 0
        /\ runs[q].pc = "failed"

\* the run, if any, that a step moves to "failed"
FailsNow(r) == r <= Len(runs) /\ InFlight(r) /\ runs'[r].pc = "failed"

C7_DownloadComplete ==
    /\ \A k \in 1..Len(downloads) :
          LET r == downloads[k].run IN
          /\ r \in 1..Len(runs)
          /\ runs[r].pc = "done"
          /\ runs[r].steps = <<"read", "decode", "render", "encode">>
          /\ downloads[k].type = runs[r].file.type
          /\ Len(downloads[k].bytes)
                = 44 + runs[r].processedBuffer.length
                         * runs[r].processedBuffer.numberOfChannels * 2
    /\ \A r \in 1..Len(runs) :
          /\ Cardinality(DownloadsOf(r)) <= 1
          /\ runs[r].pc # "done" => DownloadsOf(r) = {}

C7_FailureStep ==
    \A r \in 1..Len(runs) :
        FailsNow(r) => (error' = ProcessingErrorMessage /\ downloads' = downloads)

\* C7: a run of handleDrop completes or fails atomically: a download happens
\* only after read, decode, render and encode of that same file have succeeded,
\* in that order; a failing step offers no file and sets the error message.
C7_Atomic == [](C7_DownloadComplete) /\ [][C7_FailureStep]_vars

C7_Witness ==
    \E r, q \in 1..Len(runs) :
        /\ runs[r].pc = "done" /\ DownloadsOf(r) # {}
        /\ runs[q].pc = "failed" /\ runs[q].steps = <<"read", "decode">>
        /\ runs[q].audioBuffer.length = 2
        /\ error = ProcessingErrorMessage

AcceptedType(type) ==
    type \in { "audio/wav", "audio/mpeg", "audio/mp3", "audio/ogg", "audio/aac",
               "audio/m4a", "audio/x-m4a", "audio/mp4", "audio/webm", "audio/flac" }

C8_Gate ==
    \A r \in 1..Len(runs) :
        /\ runs[r].pc = "rejected"
              <=> ~(AcceptedType(runs[r].file.type) /\ runs[r].file.size <= 1073741824)
        /\ runs[r].pc = "rejected" =>
              (runs[r].steps = <<>> /\ ~runs[r].decoded /\ DownloadsOf(r) = {})

C8_DropStep ==
    Len(runs') > Len(runs) =>
        LET new == runs'[Len(runs')] IN
        IF AcceptedType(new.file.type) /\ new.file.size <= 1073741824
        THEN new.pc = "reading" /\ isProcessing'
        ELSE /\ new.pc = "rejected"
             /\ error' \in {UnsupportedTypeMessage, FileSizeMessage}
             /\ isProcessing' = isProcessing

C8_StaysRejected ==
    \A r \in 1..Len(runs) : runs[r].pc = "rejected" => runs'[r].pc = "rejected"

\* C8: handleDrop rejects, before any read, decode, render or encode, every file
\* whose type is not accepted or whose size exceeds 1,073,741,824 bytes, setting
\* an error message; a file of an accepted type and of at most 1,073,741,824
\* bytes, exactly 1 GiB included, proceeds.
C8_HostGate == [](C8_Gate) /\ [][C8_DropStep /\ C8_StaysRejected]_vars

C8_Witness ==
    \E r, q \in 1..Len(runs) :
        /\ runs[r].file.size = 1073741824
        /\ runs[r].pc = "done"
        /\ runs[q].file.size = 1073741825
        /\ runs[q].file.type = "audio/mpeg"
        /\ runs[q].pc = "rejected"

\* the permutations of 1..n
Perms(n) == { p \in [1..n -> 1..n] : \A i, j \in 1..n : p[i] = p[j] => i = j }

Successors(n) == { e \in graph.edges : e[1] = n }

C9_Chain ==
    graph # NoGraph =>
        LET n == Len(filters)
            st == graph.stages
        IN /\ Len(st) = n
           /\ graph.edges = { <<k - 1, k>> : k \in 1..n } \cup { <<n, -1>> }
           /\ \A k \in 0..n : Cardinality(Successors(k)) = 1
           /\ \A k \in 1..(n - 1) : st[k].frequency <= st[k + 1].frequency
           /\ \E p \in Perms(n) :
                 /\ \A k \in 1..n :
                       /\ st[k].type = filters[p[k]].type
                       /\ st[k].frequency = filters[p[k]].freq
                       /\ st[k].gain = filters[p[k]].gain
                 /\ \A j, k \in 1..n :
                       (j < k /\ st[j].frequency = st[k].frequency) => p[j] < p[k]

\* C9: processAudio builds one linear chain source -> stage_1 -> ... ->
\* stage_N -> destination with one stage per entry of the filter list, ordered
\* ascending by freq, entries of equal freq in their original order, every node
\* with exactly one successor; the filter list itself is not changed.
C9_SeriesChain == [](C9_Chain) /\ [][filters' = filters]_vars

C9_Witness ==
    /\ graph # NoGraph
    /\ Len(filters) = 3
    /\ filters[1].freq > filters[2].freq
    /\ filters[2].freq = filters[3].freq
    /\ filters[2].gain # filters[3].gain
    /\ graph.stages[1].gain = filters[2].gain
    /\ graph.stages[2].gain = filters[3].gain

\* C10: isProcessing is true exactly when at least one run of handleDrop is in
\* flight, also when a second file is dropped while an earlier run is awaiting.
C10_ProcessingIffInFlight ==
    isProcessing <=> (\E r \in 1..Len(runs) : InFlight(r))

====
